---- MODULE Spec2Model ----
(***************************************************************************)
(* A model of Control/linear_mpc.py: the reference path and its search     *)
(* cursor, the speed profile, the horizon extraction, the successive       *)
(* linearisation loop around the QP solver, and the simulation loop.       *)
(*                                                                         *)
(* Units.  The program computes in floating point; the model computes in   *)
(* integers of these units, chosen so that one control period is 1:        *)
(*   acceleration, steering   0.05 m/s^2, 0.05 rad                         *)
(*   speed                    0.01 m/s    (= acceleration unit * dt)       *)
(*   length                   0.002 m     (= speed unit * dt)              *)
(*   angle of a heading       pi/8                                         *)
(* The simulated time alone is kept as the IEEE-754 double the program     *)
(* holds, because its rounding decides the number of ticks.                *)
(***************************************************************************)
EXTENDS Integers, Sequences, FiniteSets, TLC

VARIABLES
    ref_path,   \* the PATH object: cx, cy, cyaw, length, ind_old
    node,       \* the Node object: x, y, yaw, v, direct
    trk,        \* the last path lookup: what was called, its inputs and results
    mpc,        \* the frame of linear_mpc_control
    spd,        \* the frame of calc_speed_profile
    sim         \* the frame of main

vars == <<ref_path, node, trk, mpc, spd, sim>>

(***************************************************************************)
(* class P                                                                 *)
(***************************************************************************)
T == 6
MAX_ITER == 5
N_IND_SEARCH == 10
\* 0.1, of the acceleration/steering unit
DU_TH == 2
\* 1.5 m
GOAL_DIS == 750
\* 1.0 m/s^2
MAX_ACCEL == 20
\* np.deg2rad(45.0) = 0.785 rad, to the steering unit
MAX_STEER == 15
\* 10/3.6 m/s, to the speed unit
TARGET_SPEED == 278
\* 2.5 m
WB == 1250
\* 0.2 s: the unit of time of the model
dt == 1
\* the sample spacing main passes as dl: 1.0 m
DL == 500
\* pi, of the angle unit
PI == 8

\* P.STOP_SPEED = 0.5/3.6 m/s: |v| * 0.01 < 0.5/3.6  <=>  36 * |v| < 50 * 10
STOP_SPEED_NUM == 500
STOP_SPEED_DEN == 36

(***************************************************************************)
(* Bounds of the exploration                                               *)
(***************************************************************************)
\* the longest reference path of the path lookups
MaxPathLen == 13
\* the longest path handed to calc_speed_profile
MaxPts == 3
\* the candidates of the solver in the iteration loop: ramps of 0..MaxRamp
MaxRamp == 3
\* the window of positions the simulation is explored in, in steps of
\* MAX_ACCEL * dt * dt before and after the first path sample
BackSteps == 1
AheadSteps == 2

\* Python's None, where a sequence of controls or a trajectory may stand
None == << >>

Abs(a) == IF a < 0 THEN -a ELSE a
Min(a, b) == IF a <= b THEN a ELSE b

(***************************************************************************)
(* Python's round(): to the nearest integer, halves to the even one.       *)
(* num >= 0, den > 0.                                                      *)
(***************************************************************************)
RoundHalfEven(num, den) ==
    LET q == num \div den
        r == num % den
    IN  IF 2 * r < den THEN q
        ELSE IF 2 * r > den THEN q + 1
        ELSE IF q % 2 = 0 THEN q ELSE q + 1

(***************************************************************************)
(* class PATH                                                              *)
(***************************************************************************)
PATH(cx, cy, cyaw) ==
    [cx |-> cx, cy |-> cy, cyaw |-> cyaw,
     length |-> Cardinality(DOMAIN cx), ind_old |-> 0]

\* a[lo:hi] of Python on a list indexed from 0: the indices it keeps
PySlice(length, lo, hi) == {k \in 0..(length - 1) : lo <= k /\ k < hi}

\* np.hypot(dx, dy), squared: the order of the distances is that of their squares
Hypot2(dx, dy) == dx * dx + dy * dy

\* np.argmin over dist (a sequence): the first position of the least value
RECURSIVE ArgMinScan(_, _, _)
ArgMinScan(dist, k, best) ==
    IF k > Len(dist) THEN best
    ELSE ArgMinScan(dist, k + 1, IF dist[k] < dist[best] THEN k ELSE best)

ArgMinLast(dist) ==
    CHOOSE k \in 1..Len(dist) :
        /\ \A j \in 1..Len(dist) : dist[k] <= dist[j]
        /\ \A j \in (k + 1)..Len(dist) : dist[k] < dist[j]

ArgMin(dist) == ArgMinScan(dist, 2, 1)

\* the window of samples nearest_index measures
SearchWindow(path) ==
    PySlice(path.length, path.ind_old, path.ind_old + N_IND_SEARCH)

\* dist of nearest_index: one entry per sample of the window, in order
WindowDist(path, nd) ==
    LET w == SearchWindow(path)
    IN  [k \in 1..Cardinality(w) |->
            Hypot2(nd.x - path.cx[path.ind_old + k - 1],
                   nd.y - path.cy[path.ind_old + k - 1])]

NearestIndexNoOffset(path, nd) ==
    ArgMin(WindowDist(path, nd)) - 1

\* PATH.nearest_index: the index returned (the signed distance returned with it
\* is dropped by both callers and changes no state)
NearestIndex(path, nd) ==
    (ArgMin(WindowDist(path, nd)) - 1) + path.ind_old

\* PATH.nearest_index: the object after the call
AfterNearestIndex(path, nd) ==
    [path EXCEPT !.ind_old = NearestIndex(path, nd)]

(***************************************************************************)
(* calc_optimal_trajectory_in_T_step                                       *)
(***************************************************************************)
\* travel after k passes of the loop
RECURSIVE Travel(_, _)
Travel(v, k) == IF k = 0 THEN 0 ELSE Travel(v, k - 1) + Abs(v) * dt

HorizonIndexUnclamped(ind, v, k, length, dl) ==
    Min(ind + RoundHalfEven(Travel(v, k), dl), length)

\* index of pass k (k = 1 .. T+1, i = k-1 in the source)
HorizonIndex(ind, v, k, length, dl) ==
    Min(ind + RoundHalfEven(Travel(v, k), dl), length - 1)

\* the T+1 indices the reference trajectory z_opt is read at
HorizonIndices(ind, v, length, dl) ==
    [k \in 1..(T + 1) |-> HorizonIndex(ind, v, k, length, dl)]

(***************************************************************************)
(* class Node                                                              *)
(***************************************************************************)
Node(x, y, yaw, v) == [x |-> x, y |-> y, yaw |-> yaw, v |-> v, direct |-> 1]

(***************************************************************************)
(* Reference paths the lookups are explored on: a straight line along x    *)
(* and a line that turns back on itself one sample spacing to the side,   *)
(* both sampled every DL.                                                  *)
(***************************************************************************)
Straight(n) ==
    PATH([i \in 0..(n - 1) |-> DL * i],
         [i \in 0..(n - 1) |-> 0],
         [i \in 0..(n - 1) |-> 0])

UTurn(n) ==
    LET h == (n + 1) \div 2
    IN  PATH([i \in 0..(n - 1) |-> IF i < h THEN DL * i ELSE DL * (2 * h - 1 - i)],
             [i \in 0..(n - 1) |-> IF i < h THEN 0 ELSE DL],
             [i \in 0..(n - 1) |-> IF i < h THEN 0 ELSE PI])

ProbePaths == {Straight(n) : n \in 1..MaxPathLen} \cup {UTurn(n) : n \in 2..MaxPathLen}
ProbeXs == {0, 250, 500, 1250, 3000, 6000}
ProbeYs == {0, 500}
ProbeVs == {0, 125, -250, 1500}

TrkIdle == [op |-> "none", before |-> 0, ind |-> 0, idx |-> <<>>]
MpcIdle == [pc |-> "idle"]
SpdIdle == [pc |-> "idle"]
SimIdle == [pc |-> "idle"]

(***************************************************************************)
(* The path lookups, called with any vehicle state                         *)
(***************************************************************************)
InitPath ==
    /\ ref_path \in ProbePaths
    /\ node = Node(ref_path.cx[0], ref_path.cy[0], ref_path.cyaw[0], 0)
    /\ trk = TrkIdle
    /\ mpc = MpcIdle
    /\ spd = SpdIdle
    /\ sim = SimIdle

\* target_ind, _ = ref_path.nearest_index(node)
CallNearestIndex ==
    \E x \in ProbeXs, y \in ProbeYs, v \in ProbeVs :
        LET nd == Node(x, y, 0, v)
        IN  /\ node' = nd
            /\ ref_path' = AfterNearestIndex(ref_path, nd)
            /\ trk' = [op |-> "nearest_index", before |-> ref_path.ind_old,
                       ind |-> NearestIndex(ref_path, nd), idx |-> <<>>]
            /\ UNCHANGED <<mpc, spd, sim>>

\* z_opt, target_ind, d_opt = calc_optimal_trajectory_in_T_step(node, ref_path, sp, dl)
CallCalcOptimalTrajectory ==
    \E x \in ProbeXs, y \in ProbeYs, v \in ProbeVs :
        LET nd == Node(x, y, 0, v)
            ind == NearestIndex(ref_path, nd)
        IN  /\ node' = nd
            /\ ref_path' = AfterNearestIndex(ref_path, nd)
            /\ trk' = [op |-> "calc_optimal_trajectory", before |-> ref_path.ind_old,
                       ind |-> ind,
                       idx |-> HorizonIndices(ind, nd.v, ref_path.length, DL)]
            /\ UNCHANGED <<mpc, spd, sim>>

NextPath == CallNearestIndex \/ CallCalcOptimalTrajectory

SpecPath == InitPath /\ [][NextPath]_vars

(***************************************************************************)
(* pi_2_pi, and math.atan2 on the directions a grid step can take          *)
(***************************************************************************)
pi_2_pi(angle) ==
    IF angle > PI THEN angle - 2 * PI
    ELSE IF angle < -PI THEN angle + 2 * PI
    ELSE angle

\* math.atan2(dy, dx) for dx, dy in {-1, 0, 1} times a common length
Atan2(dy, dx) ==
    CASE dx > 0 /\ dy = 0 -> 0
      [] dx > 0 /\ dy > 0 -> 2
      [] dx = 0 /\ dy > 0 -> 4
      [] dx < 0 /\ dy > 0 -> 6
      [] dx < 0 /\ dy = 0 -> 8
      [] dx < 0 /\ dy < 0 -> -6
      [] dx = 0 /\ dy < 0 -> -4
      [] dx > 0 /\ dy < 0 -> -2
      [] dx = 0 /\ dy = 0 -> 0

(***************************************************************************)
(* calc_speed_profile, one pass of its loop at a time                      *)
(***************************************************************************)
GridSteps == {<<dx, dy>> : dx \in {-1, 0, 1}, dy \in {-1, 0, 1}}
Headings == {0, 1, 3, 8}

\* the samples reached from the origin by the steps st (a sequence of grid steps)
RECURSIVE Walk(_, _)
Walk(st, k) ==
    IF k = 0 THEN <<0, 0>>
    ELSE <<Walk(st, k - 1)[1] + st[k][1], Walk(st, k - 1)[2] + st[k][2]>>

SpeedInputs ==
    UNION {
        { [cx |-> [i \in 0..(n - 1) |-> Walk(st, i)[1]],
           cy |-> [i \in 0..(n - 1) |-> Walk(st, i)[2]],
           cyaw |-> [i \in 0..(n - 1) |-> hd[i + 1]]] :
             st \in [1..(n - 1) -> GridSteps], hd \in [1..n -> Headings] }
        : n \in 1..MaxPts }

InitSpeed ==
    /\ \E inp \in SpeedInputs :
          spd = [pc |-> "loop", cx |-> inp.cx, cy |-> inp.cy, cyaw |-> inp.cyaw,
                 target_speed |-> TARGET_SPEED, len |-> Cardinality(DOMAIN inp.cx),
                 i |-> 0, direction |-> 1,
                 speed_profile |->
                     [k \in 0..(Cardinality(DOMAIN inp.cx) - 1) |-> TARGET_SPEED]]
    /\ ref_path = Straight(1)
    /\ node = Node(0, 0, 0, 0)
    /\ trk = TrkIdle
    /\ mpc = MpcIdle
    /\ sim = SimIdle

\* direction after the pass over segment i
SegmentDirection(cx, cy, cyaw, i, direction) ==
    LET dx == cx[i + 1] - cx[i]
        dy == cy[i + 1] - cy[i]
        move_direction == Atan2(dy, dx)
        dangle == Abs(pi_2_pi(move_direction - cyaw[i]))
    IN  IF dx # 0 /\ dy # 0
        THEN (IF 4 * dangle >= PI THEN -1 ELSE 1)
        ELSE direction

\* for i in range(len(cx) - 1): one pass
SpeedPass ==
    /\ spd.pc = "loop"
    /\ spd.i < spd.len - 1
    /\ LET d == SegmentDirection(spd.cx, spd.cy, spd.cyaw, spd.i, spd.direction)
       IN  spd' = [spd EXCEPT
                     !.direction = d,
                     !.speed_profile[spd.i] =
                         IF d # 1 THEN -spd.target_speed ELSE spd.target_speed,
                     !.i = spd.i + 1]
    /\ UNCHANGED <<ref_path, node, trk, mpc, sim>>

\* speed_profile[-1] = 0.0; return speed_profile
SpeedReturn ==
    /\ spd.pc = "loop"
    /\ spd.i = spd.len - 1
    /\ spd' = [spd EXCEPT !.speed_profile[spd.len - 1] = 0, !.pc = "done"]
    /\ UNCHANGED <<ref_path, node, trk, mpc, sim>>

NextSpeed == SpeedPass \/ SpeedReturn

SpecSpeed == InitSpeed /\ [][NextSpeed]_vars

(***************************************************************************)
(* solve_linear_mpc.  The QP solver is outside the program: what           *)
(* prob.solve leaves behind (the status, z.value, u.value) is an input.    *)
(***************************************************************************)
OPTIMAL == "optimal"
OPTIMAL_INACCURATE == "optimal_inaccurate"
INFEASIBLE == "infeasible"
SOLVER_ERROR == "solver_error"
Statuses == {OPTIMAL, OPTIMAL_INACCURATE, INFEASIBLE, SOLVER_ERROR}

\* a control row of u.value: first entry a, then k entries of one unit, then zeros
Cand(a, k) == [i \in 1..T |-> IF i = 1 THEN a ELSE IF i <= k + 1 THEN 1 ELSE 0]
Zeros == [i \in 1..T |-> 0]

\* what the solver left: z stands for the matrix z.value
Solved(status, z, ua, ud) == [status |-> status, z |-> z, ua |-> ua, ud |-> ud]

AllNone ==
    [oa |-> None, odelta |-> None, ox |-> None, oy |-> None,
     oyaw |-> None, ov |-> None]

Trajectories(raw) ==
    [oa |-> raw.ua, odelta |-> raw.ud,
     ox |-> <<raw.z, 0>>, oy |-> <<raw.z, 1>>,
     oyaw |-> <<raw.z, 3>>, ov |-> <<raw.z, 2>>]

SolveOnlyOptimal(raw) ==
    IF raw.status = OPTIMAL THEN Trajectories(raw) ELSE AllNone

\* the if/else after prob.solve: the six values returned
SolveLinearMpc(raw) ==
    IF raw.status = OPTIMAL \/ raw.status = OPTIMAL_INACCURATE
    THEN Trajectories(raw)
    ELSE AllNone

(***************************************************************************)
(* linear_mpc_control                                                      *)
(***************************************************************************)
RECURSIVE SumAbsDiff(_, _, _)
SumAbsDiff(a, b, k) ==
    IF k = 0 THEN 0 ELSE SumAbsDiff(a, b, k - 1) + Abs(a[k] - b[k])

\* du = sum(abs(oa - poa)) + sum(abs(od - pod))
Du(oa, poa, od, pod) == SumAbsDiff(oa, poa, T) + SumAbsDiff(od, pod, T)

\* if oa is None or od is None: both start from zeros
Seeded(oa, od) ==
    IF oa = None \/ od = None
    THEN [oa |-> Zeros, odelta |-> Zeros]
    ELSE [oa |-> oa, odelta |-> od]

BreaksStrict(du) == du < DU_TH

\* if du <= P.DU_TH: break
Breaks(du) == du <= DU_TH

\* One pass of the loop from the candidate (oa, od), the solver leaving raw:
\* the subtraction of line 219 raises TypeError on a None, else the pass breaks
\* or goes on with the new candidate.
MpcPass(oa, od, raw) ==
    LET ret == SolveLinearMpc(raw)
    IN  IF ret.oa = None
        THEN [kind |-> "raise", ret |-> ret, du |-> 0]
        ELSE LET du == Du(ret.oa, oa, ret.odelta, od)
             IN  [kind |-> IF Breaks(du) THEN "break" ELSE "continue",
                  ret |-> ret, du |-> du]

\* The whole call, the solver leaving raws[i + 1] in pass i.
RECURSIVE MpcLoop(_, _, _)
MpcLoop(cur, raws, i) ==
    IF i = MAX_ITER
    THEN [raised |-> FALSE, printed |-> TRUE, passes |-> i, ret |-> cur]
    ELSE LET p == MpcPass(cur.oa, cur.odelta, raws[i + 1])
         IN  CASE p.kind = "raise" ->
                    [raised |-> TRUE, printed |-> FALSE, passes |-> i + 1, ret |-> p.ret]
               [] p.kind = "break" ->
                    [raised |-> FALSE, printed |-> FALSE, passes |-> i + 1, ret |-> p.ret]
               [] p.kind = "continue" -> MpcLoop(p.ret, raws, i + 1)

LinearMpcControl(oa, od, raws) ==
    LET seed == Seeded(oa, od)
    IN  MpcLoop([AllNone EXCEPT !.oa = seed.oa, !.odelta = seed.odelta], raws, 0)

\* The candidates the solver is let to leave in the loop explored pass by pass
MpcStarts == {None} \cup {Cand(0, k) : k \in {0, MaxRamp}}
MpcRaws ==
    {Solved(st, 0, Cand(0, ka), Cand(0, kd)) :
        st \in Statuses, ka \in 0..MaxRamp, kd \in {0, 1}}

InitMpc ==
    /\ \E oa \in MpcStarts, od \in MpcStarts :
          mpc = [pc |-> "entry", arg_oa |-> oa, arg_od |-> od,
                 oa |-> oa, od |-> od, poa |-> None, pod |-> None,
                 i |-> 0, ret |-> AllNone, raw |-> None, dus |-> <<>>,
                 printed |-> FALSE]
    /\ ref_path = Straight(1)
    /\ node = Node(0, 0, 0, 0)
    /\ trk = TrkIdle
    /\ spd = SpdIdle
    /\ sim = SimIdle

\* lines 211-213
MpcSeed ==
    /\ mpc.pc = "entry"
    /\ LET seed == Seeded(mpc.oa, mpc.od)
       IN  mpc' = [mpc EXCEPT !.oa = seed.oa, !.od = seed.odelta, !.pc = "loop"]
    /\ UNCHANGED <<ref_path, node, trk, spd, sim>>

\* lines 215-221: one pass; mpc.i counts the passes begun
MpcIterate ==
    /\ mpc.pc = "loop"
    /\ mpc.i < MAX_ITER
    /\ \E r \in MpcRaws :
          \* z.value is a matrix of this solve's own: it is named by the pass
          LET raw == [r EXCEPT !.z = mpc.i + 1]
              p == MpcPass(mpc.oa, mpc.od, raw)
          IN  mpc' = [mpc EXCEPT
                        !.poa = mpc.oa, !.pod = mpc.od,
                        !.oa = p.ret.oa, !.od = p.ret.odelta,
                        !.ret = p.ret,
                        !.i = mpc.i + 1,
                        !.raw = raw,
                        !.dus = IF p.kind = "raise" THEN mpc.dus
                                ELSE Append(mpc.dus, p.du),
                        !.pc = CASE p.kind = "raise" -> "raised"
                                 [] p.kind = "break" -> "returned"
                                 [] p.kind = "continue" -> "loop"]
    /\ UNCHANGED <<ref_path, node, trk, spd, sim>>

\* lines 222-225: the loop ran out
MpcMaxIter ==
    /\ mpc.pc = "loop"
    /\ mpc.i = MAX_ITER
    /\ mpc' = [mpc EXCEPT !.printed = TRUE, !.pc = "returned"]
    /\ UNCHANGED <<ref_path, node, trk, spd, sim>>

NextMpc == MpcSeed \/ MpcIterate \/ MpcMaxIter

SpecMpc == InitMpc /\ [][NextMpc]_vars

(***************************************************************************)
(* The simulated time: an IEEE-754 double, held exactly as the integer     *)
(* m with value m * 2^-55, m in three limbs of 24 bits (l2 the highest).   *)
(* Addition is exact addition followed by rounding to 53 significant       *)
(* bits, ties to the even neighbour.                                       *)
(***************************************************************************)
Limb == 2 ^ 24

Double(l2, l1, l0) == [l2 |-> l2, l1 |-> l1, l0 |-> l0]

\* 0.0
time0 == Double(0, 0, 0)
\* P.dt = 0.2, the double nearest to it: 0x1999999999999A * 2^-55
DOUBLE_DT == Double(25, 10066329, 10066330)
\* P.MAX_TIME = 500.0 = 500 * 2^7 * 2^48 * 2^-55
DOUBLE_MAX_TIME == Double(500 * 128, 0, 0)

RECURSIVE BitLen(_)
BitLen(x) == IF x = 0 THEN 0 ELSE 1 + BitLen(x \div 2)

FBits(a) ==
    IF a.l2 > 0 THEN 48 + BitLen(a.l2)
    ELSE IF a.l1 > 0 THEN 24 + BitLen(a.l1)
    ELSE BitLen(a.l0)

\* limbs that may have outgrown 24 bits, carried upward
Carried(l2, l1, l0) ==
    LET m1 == l1 + (l0 \div Limb)
    IN  Double(l2 + (m1 \div Limb), m1 % Limb, l0 % Limb)

FAddExact(a, b) == Carried(a.l2 + b.l2, a.l1 + b.l1, a.l0 + b.l0)

\* round to 53 significant bits, ties to even (fewer than 24 bits are dropped)
FRound(s) ==
    LET n == FBits(s)
    IN  IF n <= 53 THEN s
        ELSE LET q == 2 ^ (n - 53)
                 r == s.l0 % q
                 half == q \div 2
                 odd == (s.l0 \div q) % 2 = 1
                 up == r > half \/ (r = half /\ odd)
             IN  Carried(s.l2, s.l1, s.l0 - r + (IF up THEN q ELSE 0))

\* a + b of two doubles
FAdd(a, b) == FRound(FAddExact(a, b))

\* a < b
FLess(a, b) ==
    \/ a.l2 < b.l2
    \/ a.l2 = b.l2 /\ a.l1 < b.l1
    \/ a.l2 = b.l2 /\ a.l1 = b.l1 /\ a.l0 < b.l0

(***************************************************************************)
(* Node.update, for the headings and steering angles the model meets:      *)
(* the simulated path runs along x and the steering commands explored are  *)
(* zero, so the trigonometry is needed at 0 alone.                         *)
(***************************************************************************)
Cos(a) == CASE a = 0 -> 1
Sin(a) == CASE a = 0 -> 0
Tan(a) == CASE a = 0 -> 0

limit_input(delta) ==
    IF delta >= MAX_STEER THEN MAX_STEER
    ELSE IF delta <= -MAX_STEER THEN -MAX_STEER
    ELSE delta

update(nd, a, delta, direct) ==
    LET d == limit_input(delta)
    IN  [x |-> nd.x + nd.v * Cos(nd.yaw) * dt,
         y |-> nd.y + nd.v * Sin(nd.yaw) * dt,
         yaw |-> nd.yaw + (nd.v * Tan(d) * dt) \div WB,
         direct |-> direct,
         v |-> nd.v + direct * a * dt]

(***************************************************************************)
(* main: the simulation loop, one pass of its body at a time               *)
(***************************************************************************)
GoalReachedNoSpeed(path, nd) ==
    Hypot2(nd.x - path.cx[path.length - 1], nd.y - path.cy[path.length - 1])
        < GOAL_DIS * GOAL_DIS

\* dist < P.GOAL_DIS and abs(node.v) < P.STOP_SPEED
GoalReached(path, nd) ==
    /\ Hypot2(nd.x - path.cx[path.length - 1], nd.y - path.cy[path.length - 1])
          < GOAL_DIS * GOAL_DIS
    /\ STOP_SPEED_DEN * Abs(nd.v) < STOP_SPEED_NUM

\* The reference paths of the simulation, both sampled about every DL.  On
\* the first the start lies within GOAL_DIS of the last sample; on the second,
\* which turns left after its second sample, it lies just outside.
Short2 == Straight(2)
Bent3 ==
    PATH([i \in 0..2 |-> CASE i = 0 -> 0 [] i = 1 -> 500 [] i = 2 -> 580],
         [i \in 0..2 |-> CASE i = 0 -> 0 [] i = 1 -> 0 [] i = 2 -> 494],
         [i \in 0..2 |-> 0])
SimPaths == {Short2, Bent3}

\* What the solver is let to leave in one tick: the same controls in every
\* pass (acceleration a at the first step, no steering), with status st in
\* pass f (f = 0: in none) and OPTIMAL in the others.
SimAccels == {-MAX_ACCEL, 0, MAX_ACCEL}
SimOutcomes ==
    {<<0, OPTIMAL>>, <<1, OPTIMAL_INACCURATE>>, <<1, INFEASIBLE>>, <<2, SOLVER_ERROR>>}
SimRaws(a, f, st) ==
    [i \in 1..MAX_ITER |->
        Solved(IF i = f THEN st ELSE OPTIMAL, i, Cand(a, 0), Zeros)]

\* The window of vehicle states explored: the position, and the position one
\* tick on, stay within BackSteps and AheadSteps steps of the first sample, and
\* the speed within one step of rest (so that braking always stays inside).
SimStep == MAX_ACCEL * dt * dt
InWindow(nd) ==
    /\ -BackSteps * SimStep <= nd.x /\ nd.x <= AheadSteps * SimStep
    /\ -BackSteps * SimStep <= nd.x + nd.v * dt
    /\ nd.x + nd.v * dt <= AheadSteps * SimStep
    /\ Abs(nd.v) <= MAX_ACCEL * dt

InitSim ==
    /\ \E p \in SimPaths :
          LET nd == Node(p.cx[0], p.cy[0], p.cyaw[0], 0)
          IN  /\ node = nd
              \* target_ind, _ = ref_path.nearest_index(node)
              /\ ref_path = AfterNearestIndex(p, nd)
              /\ sim = [pc |-> "loop", time |-> time0,
                        target_ind |-> NearestIndex(p, nd),
                        oa |-> None, odelta |-> None, ox |-> None,
                        ai |-> 0, di |-> 0,
                        \* history: passes of the loop body begun; the last of them
                        \* that began with the goal condition true (0: none);
                        \* whether a solve failed in the last one
                        ticks |-> 0, goal_tick |-> 0, failed |-> FALSE]
    /\ trk = TrkIdle
    /\ mpc = MpcIdle
    /\ spd = SpdIdle

\* lines 297-323: one pass of the body of `while time < P.MAX_TIME`.  The
\* reference z_opt read at the horizon indices goes to the solver alone; of the
\* extraction the cursor and target_ind remain.
Tick ==
    /\ sim.pc = "loop"
    /\ FLess(sim.time, DOUBLE_MAX_TIME)
    /\ ref_path' = AfterNearestIndex(ref_path, node)
    /\ LET hist == [sim EXCEPT
                      !.ticks = sim.ticks + 1,
                      !.goal_tick = IF GoalReached(ref_path, node)
                                    THEN sim.ticks + 1 ELSE sim.goal_tick,
                      !.target_ind = NearestIndex(ref_path, node)]
           time1 == FAdd(sim.time, DOUBLE_DT)
       IN  \E a \in SimAccels, o \in SimOutcomes :
             LET r == LinearMpcControl(sim.oa, sim.odelta, SimRaws(a, o[1], o[2]))
             IN  IF r.raised
                 THEN \* the TypeError of line 219 leaves linear_mpc_control and main
                      /\ sim' = [hist EXCEPT !.pc = "crashed", !.failed = TRUE]
                      /\ node' = node
                 ELSE LET di == IF r.ret.odelta # None THEN r.ret.odelta[1] ELSE 0
                          ai == IF r.ret.odelta # None THEN r.ret.oa[1] ELSE 0
                          nd == update(node, ai, di, 1)
                      IN  /\ InWindow(nd)
                          /\ node' = nd
                          /\ sim' = [hist EXCEPT
                                       !.oa = r.ret.oa, !.odelta = r.ret.odelta,
                                       !.ox = r.ret.ox,
                                       !.ai = ai, !.di = di,
                                       !.failed = r.ret.oa = None,
                                       !.time = time1,
                                       !.pc = IF GoalReached(ref_path, nd)
                                              THEN "done" ELSE "loop"]
    /\ UNCHANGED <<trk, mpc, spd>>

\* the loop condition fails: time >= P.MAX_TIME
TimeUp ==
    /\ sim.pc = "loop"
    /\ ~FLess(sim.time, DOUBLE_MAX_TIME)
    /\ sim' = [sim EXCEPT !.pc = "done"]
    /\ UNCHANGED <<ref_path, node, trk, mpc, spd>>

NextSim == Tick \/ TimeUp

SpecSim == InitSim /\ [][NextSim]_vars

(***************************************************************************)
(*                              Properties                                 *)
(***************************************************************************)
Dist2(path, nd, j) == Hypot2(nd.x - path.cx[j], nd.y - path.cy[j])

\* the samples of [before, before + N_IND_SEARCH) that exist
LookupWindow ==
    {j \in 0..(ref_path.length - 1) :
        trk.before <= j /\ j < trk.before + N_IND_SEARCH}

\* C1: when a solve fails in a tick, linear_mpc_control returns without raising
\* and main applies zero acceleration and zero steering and goes on.
C1_FailedSolveAppliesZeroControl ==
    sim.failed => (sim.pc # "crashed" /\ sim.ai = 0 /\ sim.di = 0)

\* C2: a tick in which a solve fails leaves the loop at its head with the
\* warm-start sequences oa, odelta it began with.
C2_WarmStartKeptOnFailure ==
    [][(sim'.ticks = sim.ticks + 1 /\ sim'.failed)
         => (sim'.pc = "loop" /\ sim'.oa = sim.oa /\ sim'.odelta = sim.odelta)]_vars

\* C3 as stated: solve_linear_mpc returns six None for every status other than
\* OPTIMAL, and trajectories for OPTIMAL.
C3_NoneUnlessOptimal ==
    mpc.pc # "idle" /\ mpc.i > 0 =>
        IF mpc.raw.status = OPTIMAL
        THEN mpc.ret.oa = mpc.raw.ua /\ mpc.ret.odelta = mpc.raw.ud
        ELSE mpc.ret = AllNone

\* C3 amended: solve_linear_mpc returns six None exactly for the statuses other
\* than OPTIMAL and OPTIMAL_INACCURATE; for these two it returns the solver's
\* controls and state trajectories.
C3_NoneUnlessOptimalOrInaccurate ==
    mpc.pc # "idle" /\ mpc.i > 0 =>
        IF mpc.raw.status \in {OPTIMAL, OPTIMAL_INACCURATE}
        THEN /\ mpc.ret.oa = mpc.raw.ua /\ mpc.ret.odelta = mpc.raw.ud
             /\ mpc.ret.ox # None /\ mpc.ret.oy # None
             /\ mpc.ret.oyaw # None /\ mpc.ret.ov # None
        ELSE /\ mpc.ret.oa = None /\ mpc.ret.odelta = None
             /\ mpc.ret.ox = None /\ mpc.ret.oy = None
             /\ mpc.ret.oyaw = None /\ mpc.ret.ov = None

C3_Witness ==
    /\ mpc.pc # "idle" /\ mpc.i > 0
    /\ mpc.raw.status = OPTIMAL_INACCURATE
    /\ mpc.ret.oa = mpc.raw.ua

\* C4: with every solve succeeding, linear_mpc_control makes at most MAX_ITER
\* passes, stops at the first pass whose du is <= DU_TH, reports "max iter"
\* exactly when no pass had du <= DU_TH, and returns what the last solve gave.
C4_IterationDiscipline ==
    mpc.pc \in {"loop", "returned"} =>
        /\ mpc.i <= MAX_ITER
        /\ Len(mpc.dus) = mpc.i
        /\ \A k \in 1..(mpc.i - 1) : mpc.dus[k] > DU_TH
        /\ mpc.pc = "loop" => \A k \in 1..mpc.i : mpc.dus[k] > DU_TH
        /\ mpc.pc = "returned" =>
              /\ mpc.i >= 1
              /\ mpc.dus[mpc.i] = Du(mpc.oa, mpc.poa, mpc.od, mpc.pod)
              /\ mpc.printed <=> (\A k \in 1..mpc.i : mpc.dus[k] > DU_TH)
              /\ mpc.raw.z = mpc.i
              /\ mpc.ret = Trajectories(mpc.raw)

C4_Witness ==
    /\ mpc.pc = "returned" /\ mpc.i = MAX_ITER /\ ~mpc.printed
    /\ mpc.dus[MAX_ITER] = DU_TH

\* C5: no call of nearest_index lowers the cursor ind_old.
C5_CursorNeverDecreases ==
    [][ref_path'.ind_old >= ref_path.ind_old]_vars

\* a call made with the vehicle nearer to a sample behind the cursor
C5_Witness ==
    /\ trk.op # "none" /\ trk.before > 0
    /\ \E j \in 0..(trk.before - 1) :
          Dist2(ref_path, node, j) < Dist2(ref_path, node, trk.ind)
    /\ ref_path.ind_old >= trk.before

\* C6 as stated: no pass of the loop body begins in a state that satisfies the
\* goal condition, the initial state included.
C6_NoTickBeginsAtGoal == sim.pc # "idle" => sim.goal_tick = 0

C6_GoalCondition ==
    /\ Hypot2(node.x - ref_path.cx[ref_path.length - 1],
              node.y - ref_path.cy[ref_path.length - 1]) < GOAL_DIS * GOAL_DIS
    /\ STOP_SPEED_DEN * Abs(node.v) < STOP_SPEED_NUM

\* C6 amended: the goal condition is tested after the vehicle update of each
\* tick and not before the first: when the updated state satisfies it the loop
\* ends there, so that only the first tick can begin in a state satisfying it;
\* and the loop ends before MAX_TIME for no other reason.
C6_HaltsAtCheckAfterUpdate ==
    sim.pc # "idle" =>
        /\ sim.goal_tick <= 1
        /\ (sim.pc = "loop" /\ sim.ticks >= 1) => ~C6_GoalCondition
        /\ (sim.pc = "done" /\ FLess(sim.time, DOUBLE_MAX_TIME)) => C6_GoalCondition

C6_Witness ==
    /\ sim.pc = "done" /\ sim.ticks >= 2 /\ ref_path.length = 3
    /\ C6_GoalCondition /\ sim.goal_tick = 0

\* C7: when calc_speed_profile has returned, every segment i whose direction of
\* movement differs from cyaw[i] by more than pi/4 has speed_profile[i] equal
\* to -target_speed.
C7_ReverseSegmentsAreNegative ==
    spd.pc = "done" =>
        \A i \in 0..(spd.len - 2) :
            4 * Abs(pi_2_pi(Atan2(spd.cy[i + 1] - spd.cy[i], spd.cx[i + 1] - spd.cx[i])
                            - spd.cyaw[i])) > PI
                => spd.speed_profile[i] = -spd.target_speed

\* C8: the loop performs at most MAX_TIME / dt = 2500 passes of its body, and
\* when it has ended the goal condition holds or the time has reached MAX_TIME.
C8_AtMostMaxTimeOverDtTicks ==
    sim.pc # "idle" =>
        /\ sim.ticks * 2 <= 500 * 10
        /\ sim.pc = "done" => (C6_GoalCondition \/ ~FLess(sim.time, DOUBLE_MAX_TIME))

\* C9: nearest_index searches a window that is not empty and returns an index
\* of the path; the T+1 horizon indices lie between it and the last sample, do
\* not decrease, and are the last sample wherever the look-ahead passes it.
C9_IndicesValid ==
    trk.op # "none" =>
        /\ LookupWindow # {}
        /\ trk.ind \in 0..(ref_path.length - 1)
        /\ trk.op = "calc_optimal_trajectory" =>
              /\ Len(trk.idx) = T + 1
              /\ \A k \in 1..(T + 1) :
                    /\ trk.ind <= trk.idx[k] /\ trk.idx[k] <= ref_path.length - 1
                    /\ k > 1 => trk.idx[k - 1] <= trk.idx[k]
                    /\ trk.ind + RoundHalfEven(k * Abs(node.v), DL) > ref_path.length - 1
                          => trk.idx[k] = ref_path.length - 1
                    /\ trk.ind + RoundHalfEven(k * Abs(node.v), DL) <= ref_path.length - 1
                          => trk.idx[k] = trk.ind + RoundHalfEven(k * Abs(node.v), DL)

\* the look-ahead passes the last sample part of the way along the horizon
C9_Witness ==
    /\ trk.op = "calc_optimal_trajectory"
    /\ trk.before > 0
    /\ trk.idx[1] < ref_path.length - 1
    /\ trk.ind + RoundHalfEven((T + 1) * Abs(node.v), DL) > ref_path.length - 1
    /\ trk.idx[T + 1] = ref_path.length - 1

\* C10: nearest_index returns the first sample of least distance among the
\* samples of the window that exist, and leaves the cursor on it; so the cursor
\* advances by at most N_IND_SEARCH - 1.
C10_NearestInWindow ==
    trk.op # "none" =>
        /\ trk.ind \in LookupWindow
        /\ \A j \in LookupWindow :
              /\ Dist2(ref_path, node, trk.ind) <= Dist2(ref_path, node, j)
              /\ j < trk.ind => Dist2(ref_path, node, trk.ind) < Dist2(ref_path, node, j)
        /\ ref_path.ind_old = trk.ind
        /\ trk.ind - trk.before <= N_IND_SEARCH - 1

\* a nearer sample lies outside the window, and a tie inside it
C10_Witness ==
    /\ trk.op # "none"
    /\ \E j \in 0..(ref_path.length - 1) :
          j \notin LookupWindow /\ Dist2(ref_path, node, j) < Dist2(ref_path, node, trk.ind)
    /\ \E j \in LookupWindow :
          j # trk.ind /\ Dist2(ref_path, node, j) = Dist2(ref_path, node, trk.ind)

====
